---- MODULE Spec2Model ----
(***************************************************************************)
(* State-machine model of the LifeLink blood bank front end (src/App.tsx): *)
(*   - InventoryManager : per-type unit counts, adjust, commit             *)
(*   - DonorScreening   : the eligibility questionnaire                    *)
(*   - App              : search / ranking of centers and review handling  *)
(* Numbers with one decimal in the source (distance_km, rating) are kept   *)
(* as integers in tenths (1.2 km = 12, rating 4.8 = 48).                   *)
(***************************************************************************)
EXTENDS Integers, Sequences, FiniteSets, TLC

VARIABLES
    \* InventoryManager component state
    inventory, loading, isSaving, lastSynced, clock, syncAlert,
    \* history: commits completed since the load or the latest adjustment
    commitsSinceAdjust,
    \* DonorScreening component state
    currentStep, answers, failedIndices,
    \* App component state
    centers, selectedBloodType, sortBy, results, isSearching, searchTimer,
    selectedCenter,
    \* App navigation state
    activeTab, activeRole, dashboardView, backTimers,
    \* App state fed by the browser and the shortage lookup, with the
    \* status of the one geolocation request and the number of lookups
    \* that have not settled
    userLocation, geolocation, isCheckingShortages, shortageAlert,
    shortageCalls

invVars    == <<inventory, loading, isSaving, lastSynced, clock, syncAlert,
                commitsSinceAdjust>>
screenVars == <<currentStep, answers, failedIndices>>
appVars    == <<centers, selectedBloodType, sortBy, results, isSearching,
                searchTimer, selectedCenter>>
navVars    == <<activeTab, activeRole, dashboardView, backTimers>>
envVars    == <<userLocation, geolocation, isCheckingShortages,
                shortageAlert, shortageCalls>>
vars       == <<invVars, screenVars, appVars, navVars, envVars>>

\* JavaScript null (useState(null), an unset timer)
Null == <<>>

(***************************************************************************)
(* Bounds of the model                                                     *)
(***************************************************************************)
\* largest total distance (in units) of the inventory from the loaded data
MaxDrift == 2
\* number of commits that can complete (caps the wall clock)
MaxClock == 2
\* longest facility list handed to the ranking expression
MaxCenters == 3
\* number of reviews written by handleAddReview that a list can hold
MaxNewReviews == 2
\* number of pending form-submission timers that will call onBack
MaxBackTimers == 1
\* number of updateUnits calls issued before React re-renders
MaxBatch == 2
\* number of searchBloodShortages calls that have not settled
MaxShortageCalls == 1

(***************************************************************************)
(* Types and program constants                                             *)
(***************************************************************************)
\* Object.keys order of the inventory literal; the spread in updateUnits
\* keeps the insertion order of the keys
BloodTypeKeys == <<"A+", "A-", "B+", "B-", "O+", "O-", "AB+", "AB-">>

BloodType == {BloodTypeKeys[i] : i \in 1..Len(BloodTypeKeys)}

CRITICAL_THRESHOLD == 5

Max(a, b) == IF a >= b THEN a ELSE b

Abs(a) == IF a >= 0 THEN a ELSE -a

RECURSIVE SumOver(_, _)
SumOver(f, S) ==
    IF S = {} THEN 0
    ELSE LET x == CHOOSE y \in S : TRUE IN f[x] + SumOver(f, S \ {x})

Range(s) == {s[i] : i \in 1..Len(s)}

\* the empty object {} of useState<Record<string, boolean>>({})
EmptyRecord == [k \in {} |-> FALSE]

(***************************************************************************)
(* App navigation: tabs, roles and the dashboard views                      *)
(***************************************************************************)
Role == {"ADMIN", "DONOR", "PATIENT", "STAFF", "GUEST"}

Tab == {"search", "health", "dashboard"}

DashboardView == {"main", "inventory", "registration", "update_donor",
                  "request_blood", "screening"}

InitNav ==
    /\ activeTab = "search"
    /\ activeRole = "GUEST"
    /\ dashboardView = "main"
    /\ backTimers = 0

\* the conditional rendering at the end of App
InventoryMounted == activeTab = "dashboard" /\ dashboardView = "inventory"

ScreeningMounted == activeTab = "dashboard" /\ dashboardView = "screening"

\* faulty variant: DonorScreening keeps its state while it is not shown
RemountChildKeepingSession ==
    /\ inventory' = Null
    /\ loading' = TRUE
    /\ isSaving' = FALSE
    /\ lastSynced' = Null
    /\ syncAlert' = Null
    /\ commitsSinceAdjust' = 0
    /\ UNCHANGED <<currentStep, answers, failedIndices, clock>>

\* A dashboard child that is replaced is unmounted and loses its useState
\* values; the next mount starts from the initial values (the wall clock is
\* not component state)
RemountChild ==
    /\ inventory' = Null
    /\ loading' = TRUE
    /\ isSaving' = FALSE
    /\ lastSynced' = Null
    /\ syncAlert' = Null
    /\ commitsSinceAdjust' = 0
    /\ currentStep' = 0
    /\ answers' = EmptyRecord
    /\ failedIndices' = <<>>
    /\ UNCHANGED clock

(***************************************************************************)
(* InventoryManager                                                        *)
(***************************************************************************)
mockBackendData ==
    [t \in BloodType |->
        CASE t = "A+"  -> 22 [] t = "A-"  -> 3
          [] t = "B+"  -> 14 [] t = "B-"  -> 1
          [] t = "O+"  -> 28 [] t = "O-"  -> 4
          [] t = "AB+" -> 5  [] t = "AB-" -> 0]

\* state of a freshly mounted InventoryManager: the fetch effect has started
InitInventory ==
    /\ inventory = Null
    /\ loading = TRUE
    /\ isSaving = FALSE
    /\ lastSynced = Null
    /\ clock = 0
    /\ syncAlert = Null
    /\ commitsSinceAdjust = 0

\* faulty variant: the loaded mapping holds only the types that are in stock
fetchLatestInventorySparse ==
    /\ InventoryMounted
    /\ loading = TRUE
    /\ inventory' = [t \in {u \in BloodType : mockBackendData[u] > 0} |->
                        mockBackendData[t]]
    /\ lastSynced' = clock
    /\ loading' = FALSE
    /\ UNCHANGED <<isSaving, clock, syncAlert, commitsSinceAdjust, screenVars,
                   appVars, navVars, envVars>>

\* completion of fetchLatestInventory (the 1200 ms timer never rejects)
fetchLatestInventory ==
    /\ InventoryMounted
    /\ loading = TRUE
    /\ inventory' = mockBackendData
    /\ lastSynced' = clock
    /\ loading' = FALSE
    /\ UNCHANGED <<isSaving, clock, syncAlert, commitsSinceAdjust, screenVars,
                   appVars, navVars, envVars>>

\* total distance of an inventory from the loaded data (bounds the model)
Drift(inv) ==
    SumOver([t \in BloodType |-> Abs(inv[t] - mockBackendData[t])], BloodType)

\* the functional updater of updateUnits: prev => ({...prev, [type]: ...})
\* faulty variant: the sum is stored without Math.max(0, ...)
updateUnitsMissingClamp(prev, type, delta) ==
    [prev EXCEPT ![type] = prev[type] + delta]

updateUnitsUpdater(prev, type, delta) ==
    [prev EXCEPT ![type] = Max(0, prev[type] + delta)]

\* faulty variant: every adjustment also starts a commit
updateUnitsAutosave(type, delta) ==
    /\ InventoryMounted
    /\ loading = FALSE
    /\ inventory # Null
    /\ inventory' = updateUnitsUpdater(inventory, type, delta)
    /\ commitsSinceAdjust' = 0
    /\ isSaving' = TRUE
    /\ UNCHANGED <<loading, lastSynced, clock, syncAlert, screenVars, appVars,
                   navVars, envVars>>
    /\ Drift(updateUnitsUpdater(inventory, type, delta)) <= MaxDrift

\* faulty variant: the - and + buttons are disabled while a commit is in
\* flight
updateUnitsBlockedWhileSaving(type, delta) ==
    /\ InventoryMounted
    /\ loading = FALSE
    /\ inventory # Null
    /\ isSaving = FALSE
    /\ inventory' = updateUnitsUpdater(inventory, type, delta)
    /\ commitsSinceAdjust' = 0
    /\ UNCHANGED <<loading, isSaving, lastSynced, clock, syncAlert, screenVars,
                   appVars, navVars, envVars>>
    /\ Drift(updateUnitsUpdater(inventory, type, delta)) <= MaxDrift

\* updateUnits(type, delta), called by the - and + buttons with delta -1 / 1;
\* the buttons are rendered only once loading is false
updateUnits(type, delta) ==
    /\ InventoryMounted
    /\ loading = FALSE
    /\ inventory # Null
    /\ inventory' = updateUnitsUpdater(inventory, type, delta)
    /\ commitsSinceAdjust' = 0
    /\ UNCHANGED <<loading, isSaving, lastSynced, clock, syncAlert, screenVars,
                   appVars, navVars, envVars>>
    /\ Drift(updateUnitsUpdater(inventory, type, delta)) <= MaxDrift

\* several updateUnits calls before React renders again: the updaters are
\* queued and each is applied to the state returned by the one before it
RECURSIVE applyUpdaters(_, _, _)
\* faulty variant: every call computes its count from the rendered
\* inventory, setInventory({...inventory, [type]: ...}), so the last one wins
applyUpdatersFromClosure(prev, type, deltas) ==
    IF deltas = <<>> THEN prev
    ELSE updateUnitsUpdater(prev, type, deltas[Len(deltas)])

applyUpdaters(prev, type, deltas) ==
    IF deltas = <<>> THEN prev
    ELSE applyUpdaters(updateUnitsUpdater(prev, type, Head(deltas)), type,
                       Tail(deltas))

\* the sequences of deltas of one batch of calls
Batches == UNION {[1..n -> {-1, 1}] : n \in 2..MaxBatch}

\* updateUnits(type, delta) called once per element of deltas within one
\* event, on the same type
updateUnitsBatch(type, deltas) ==
    /\ InventoryMounted
    /\ loading = FALSE
    /\ inventory # Null
    /\ inventory' = applyUpdaters(inventory, type, deltas)
    /\ commitsSinceAdjust' = 0
    /\ UNCHANGED <<loading, isSaving, lastSynced, clock, syncAlert, screenVars,
                   appVars, navVars, envVars>>
    /\ Drift(applyUpdaters(inventory, type, deltas)) <= MaxDrift

\* the texts of the two alert() calls of handleSave
SyncSuccessAlert == "Inventory database synchronized successfully."

SyncErrorAlert == "Error syncing with regional database. Please try again."

\* handleSave up to its await; the button is disabled while isSaving
handleSave ==
    /\ InventoryMounted
    /\ loading = FALSE
    /\ isSaving = FALSE
    /\ inventory # Null
    /\ clock < MaxClock
    /\ isSaving' = TRUE
    /\ UNCHANGED <<inventory, loading, lastSynced, clock, syncAlert,
                   commitsSinceAdjust, screenVars, appVars, navVars, envVars>>

\* handleSave after the 1500 ms timer (which never rejects): the wall clock
\* has advanced, lastSynced is set to the new time, finally isSaving = false
handleSaveResume ==
    /\ InventoryMounted
    /\ isSaving = TRUE
    /\ clock' = clock + 1
    /\ lastSynced' = clock'
    /\ syncAlert' = SyncSuccessAlert
    /\ isSaving' = FALSE
    /\ commitsSinceAdjust' = commitsSinceAdjust + 1
    /\ UNCHANGED <<inventory, loading, screenVars, appVars, navVars, envVars>>

\* faulty variant: a failed commit restores the loaded counts
handleSaveCatchWithRollback ==
    /\ InventoryMounted
    /\ isSaving = TRUE
    /\ inventory' = mockBackendData
    /\ syncAlert' = SyncErrorAlert
    /\ isSaving' = FALSE
    /\ UNCHANGED <<loading, lastSynced, clock, commitsSinceAdjust, screenVars,
                   appVars, navVars, envVars>>

\* handleSave when the awaited call rejects: the catch branch alerts, the
\* finally branch clears isSaving. The mock timer of the source never
\* rejects; the state this step leads to is the one before handleSave
\* apart from the alert
handleSaveCatch ==
    /\ InventoryMounted
    /\ isSaving = TRUE
    /\ syncAlert' = SyncErrorAlert
    /\ isSaving' = FALSE
    /\ UNCHANGED <<inventory, loading, lastSynced, clock, commitsSinceAdjust,
                   screenVars, appVars, navVars, envVars>>

\* criticalShortages, recomputed on every render
\* faulty variant: <= in place of <
criticalShortagesInclusive ==
    IF inventory # Null
    THEN SelectSeq(BloodTypeKeys,
                   LAMBDA t : inventory[t] <= CRITICAL_THRESHOLD)
    ELSE <<>>

criticalShortages ==
    IF inventory # Null
    THEN SelectSeq(BloodTypeKeys,
                   LAMBDA t : inventory[t] < CRITICAL_THRESHOLD)
    ELSE <<>>

(***************************************************************************)
(* DonorScreening                                                          *)
(***************************************************************************)
screeningQuestions == <<
    [id |-> "well", expected |-> TRUE,
     failMessage |-> "Donors must be in good health at the time of donation."],
    [id |-> "bodyart", expected |-> FALSE,
     failMessage |-> "A 6-month wait is required after tattoos or piercings to ensure safety."],
    [id |-> "travel", expected |-> FALSE,
     failMessage |-> "A 12-month deferral is standard after travel to malaria-endemic areas."],
    [id |-> "antibiotics", expected |-> FALSE,
     failMessage |-> "You must finish your antibiotic course and be symptom-free for at least 48 hours."],
    [id |-> "weight", expected |-> TRUE,
     failMessage |-> "Donors must meet the minimum weight requirement for their own well-being."] >>

\* {...answers, [id]: answer}
\* faulty variant: { [id]: answer } without the spread of answers
SpreadSetReplacing(rec, key, value) == [k \in {key} |-> value]

SpreadSet(rec, key, value) ==
    [k \in DOMAIN rec \cup {key} |-> IF k = key THEN value ELSE rec[k]]

\* state of a freshly mounted DonorScreening
InitScreening ==
    /\ currentStep = 0
    /\ answers = EmptyRecord
    /\ failedIndices = <<>>

\* isFail of handleAnswer
\* faulty variant: === in place of !==
isFailInverted(answer, q) == answer = q.expected

isFail(answer, q) == answer # q.expected

\* faulty variant: a failing answer sends the questionnaire back to the
\* first question
handleAnswerRestartOnFail(answer) ==
    /\ ScreeningMounted
    /\ currentStep < Len(screeningQuestions)
    /\ LET q == screeningQuestions[currentStep + 1] IN
        /\ answers' = SpreadSet(answers, q.id, answer)
        /\ failedIndices' = IF isFail(answer, q)
                            THEN Append(failedIndices, currentStep)
                            ELSE failedIndices
        /\ currentStep' = IF isFail(answer, q) /\ failedIndices = <<>>
                          THEN 0
                          ELSE currentStep + 1
    /\ UNCHANGED <<invVars, appVars, navVars, envVars>>

\* faulty variant: the questionnaire takes no answer after a failing one
handleAnswerStopOnFail(answer) ==
    /\ ScreeningMounted
    /\ currentStep < Len(screeningQuestions)
    /\ failedIndices = <<>>
    /\ LET q == screeningQuestions[currentStep + 1] IN
        /\ answers' = SpreadSet(answers, q.id, answer)
        /\ failedIndices' = IF isFail(answer, q)
                            THEN Append(failedIndices, currentStep)
                            ELSE failedIndices
    /\ currentStep' = currentStep + 1
    /\ UNCHANGED <<invVars, appVars, navVars, envVars>>

\* faulty variant: the result view still takes an answer, which replaces
\* the answer to the last question
handleAnswerAfterResult(answer) ==
    /\ ScreeningMounted
    /\ LET step == IF currentStep < Len(screeningQuestions)
                   THEN currentStep
                   ELSE Len(screeningQuestions) - 1
           q == screeningQuestions[step + 1]
           others == SelectSeq(failedIndices, LAMBDA i : i # step)
       IN
        /\ answers' = SpreadSet(answers, q.id, answer)
        /\ failedIndices' = IF isFail(answer, q)
                            THEN Append(others, step)
                            ELSE others
        /\ currentStep' = step + 1
    /\ UNCHANGED <<invVars, appVars, navVars, envVars>>

\* handleAnswer(answer); the Yes/No buttons exist only on a question view.
\* currentStep is the zero-based index of the source; the sequence
\* screeningQuestions is one-based
handleAnswer(answer) ==
    /\ ScreeningMounted
    /\ currentStep < Len(screeningQuestions)
    /\ LET q == screeningQuestions[currentStep + 1] IN
        /\ answers' = SpreadSet(answers, q.id, answer)
        /\ failedIndices' = IF isFail(answer, q)
                            THEN Append(failedIndices, currentStep)
                            ELSE failedIndices
    /\ currentStep' = IF currentStep < Len(screeningQuestions) - 1
                      THEN currentStep + 1
                      ELSE Len(screeningQuestions)
    /\ UNCHANGED <<invVars, appVars, navVars, envVars>>

\* isEligible, recomputed on every render
\* faulty variant: failedIndices is not consulted
isEligibleIgnoringFailures ==
    Cardinality(DOMAIN answers) = Len(screeningQuestions)

isEligible ==
    /\ Len(failedIndices) = 0
    /\ Cardinality(DOMAIN answers) = Len(screeningQuestions)

\* the result view replaces the question view
terminal == currentStep = Len(screeningQuestions)

\* the list rendered under "Reason(s) for Deferral" (only when not eligible)
deferralReasons ==
    IF terminal /\ ~isEligible
    THEN [i \in 1..Len(failedIndices) |->
            screeningQuestions[failedIndices[i] + 1].failMessage]
    ELSE <<>>

(***************************************************************************)
(* App: search, ranking and reviews                                        *)
(***************************************************************************)
\* A Review is modelled by the fields the logic reads or writes (id,
\* rating, date); user_name and comment are free text that is only shown.
\* A BloodBank is modelled by id, inventory, units_available, distance_km,
\* eta_minutes, rating, review_count, reviews; ids '1', '2', ... are kept
\* as the numbers they spell.
MockInventory1 ==
    [t \in BloodType |->
        CASE t = "A+"  -> 12 [] t = "A-"  -> 3
          [] t = "B+"  -> 8  [] t = "B-"  -> 1
          [] t = "O+"  -> 20 [] t = "O-"  -> 4
          [] t = "AB+" -> 4  [] t = "AB-" -> 1]

MockInventory2 ==
    [t \in BloodType |->
        CASE t = "A+"  -> 4  [] t = "A-"  -> 0
          [] t = "B+"  -> 12 [] t = "B-"  -> 1
          [] t = "O+"  -> 15 [] t = "O-"  -> 6
          [] t = "AB+" -> 2  [] t = "AB-" -> 0]

MOCK_CENTERS == <<
    [id |-> 1, inventory |-> MockInventory1, units_available |-> 12,
     distance_km |-> 12, eta_minutes |-> 5, rating |-> 48,
     review_count |-> 128,
     reviews |-> << [id |-> "r1", rating |-> 5, date |-> "2 days ago"],
                    [id |-> "r2", rating |-> 4, date |-> "1 week ago"] >>],
    [id |-> 2, inventory |-> MockInventory2, units_available |-> 4,
     distance_km |-> 28, eta_minutes |-> 12, rating |-> 42,
     review_count |-> 54,
     reviews |-> << [id |-> "r3", rating |-> 4, date |-> "3 days ago"] >>] >>

SortModes == {"distance", "eta"}

\* the options of the rating select of the review form
ReviewRatings == 1..5

\* ids produced by Math.random().toString(36).substring(7)
RandomIds == {"k3j9xq", "p0q2mz"}

\* state of a freshly mounted App
InitAppState ==
    /\ selectedBloodType = "O+"
    /\ sortBy = "distance"
    /\ results = <<>>
    /\ isSearching = FALSE
    /\ searchTimer = Null
    /\ selectedCenter = Null

InitApp ==
    /\ centers = MOCK_CENTERS
    /\ InitAppState

\* useState(null) of userLocation and shortageAlert, useState(false) of
\* isCheckingShortages; the mount effect has called getCurrentPosition
InitEnv ==
    /\ userLocation = Null
    /\ geolocation = "pending"
    /\ isCheckingShortages = FALSE
    /\ shortageAlert = Null
    /\ shortageCalls = 0

\* positions that getCurrentPosition may deliver, in 1/10000 degree
GeoPositions == { [lat |-> 129352, lng |-> 776245],
                  [lat |-> 286139, lng |-> 772090] }

\* the success callback of getCurrentPosition
geolocationSuccess(pos) ==
    /\ geolocation = "pending"
    /\ geolocation' = "resolved"
    /\ userLocation' = pos
    /\ UNCHANGED <<isCheckingShortages, shortageAlert, shortageCalls,
                   invVars, screenVars, appVars, navVars>>

\* the error callback of getCurrentPosition: console.error and nothing else
geolocationError ==
    /\ geolocation = "pending"
    /\ geolocation' = "failed"
    /\ UNCHANGED <<userLocation, isCheckingShortages, shortageAlert,
                   shortageCalls, invVars, screenVars, appVars, navVars>>

\* initialPos of BloodMap, in 1/10000 degree
initialPos ==
    IF userLocation # Null THEN <<userLocation.lat, userLocation.lng>>
    ELSE <<129716, 775946>>

\* what searchBloodShortages resolves to: { text, sources }
ShortageReport == [text |-> "No critical shortage reported.", sources |-> <<>>]

\* .then of the searchBloodShortages call of handleSearch
shortageResolved ==
    /\ shortageCalls > 0
    /\ shortageCalls' = shortageCalls - 1
    /\ shortageAlert' = ShortageReport
    /\ isCheckingShortages' = FALSE
    /\ UNCHANGED <<userLocation, geolocation, invVars, screenVars, appVars,
                   navVars>>

\* .catch of the searchBloodShortages call of handleSearch
shortageRejected ==
    /\ shortageCalls > 0
    /\ shortageCalls' = shortageCalls - 1
    /\ isCheckingShortages' = FALSE
    /\ UNCHANGED <<userLocation, geolocation, shortageAlert, invVars,
                   screenVars, appVars, navVars>>

\* Facility lists for the ranking expression: up to MaxCenters facilities
\* with distinct ids, each with one of four profiles that give equal and
\* opposed distance / eta keys and a zero stock for some blood types
CenterProfiles == {
    [distance_km |-> 12, eta_minutes |-> 5,  inventory |-> MockInventory1],
    [distance_km |-> 28, eta_minutes |-> 12, inventory |-> MockInventory2],
    [distance_km |-> 12, eta_minutes |-> 12, inventory |-> MockInventory2],
    [distance_km |-> 28, eta_minutes |-> 5,  inventory |-> MockInventory1] }

CenterOf(id, p) ==
    [id |-> id, inventory |-> p.inventory, units_available |-> 0,
     distance_km |-> p.distance_km, eta_minutes |-> p.eta_minutes,
     rating |-> 0, review_count |-> 0, reviews |-> <<>>]

CenterLists ==
    UNION { { [i \in 1..n |-> CenterOf(ids[i], ps[i])] :
                ids \in {f \in [1..n -> 1..MaxCenters] :
                            \A i, j \in 1..n : i # j => f[i] # f[j]},
                ps \in [1..n -> CenterProfiles] } : n \in 0..MaxCenters }

\* c => ({ ...c, units_available: c.inventory[selectedBloodType] })
\* faulty variant: centers without stock are filtered out
annotateDroppingEmpty(cs, bloodType) ==
    LET kept == SelectSeq(cs, LAMBDA c : c.inventory[bloodType] > 0) IN
    [i \in 1..Len(kept) |->
        [kept[i] EXCEPT !.units_available = kept[i].inventory[bloodType]]]

\* faulty variant: units_available is left as the registry gave it
annotateStale(cs, bloodType) == cs

annotate(cs, bloodType) ==
    [i \in 1..Len(cs) |->
        [cs[i] EXCEPT !.units_available = cs[i].inventory[bloodType]]]

\* (a, b) => sortBy === 'distance' ? a.distance_km - b.distance_km
\*                                 : a.eta_minutes - b.eta_minutes
\* faulty variant: the operands of the subtraction are swapped
compareDescending(a, b, mode) ==
    IF mode = "distance" THEN b.distance_km - a.distance_km
    ELSE b.eta_minutes - a.eta_minutes

compare(a, b, mode) ==
    IF mode = "distance" THEN a.distance_km - b.distance_km
    ELSE a.eta_minutes - b.eta_minutes

\* Array.prototype.sort with a comparator is a stable sort: x goes behind
\* every element that does not compare greater than it
RECURSIVE InsertSorted(_, _, _)
InsertSorted(sorted, x, mode) ==
    IF sorted = <<>> THEN <<x>>
    ELSE IF compare(Head(sorted), x, mode) <= 0
         THEN <<Head(sorted)>> \o InsertSorted(Tail(sorted), x, mode)
         ELSE <<x>> \o sorted

RECURSIVE SortFrom(_, _, _)
SortFrom(sorted, rest, mode) ==
    IF rest = <<>> THEN sorted
    ELSE SortFrom(InsertSorted(sorted, Head(rest), mode), Tail(rest), mode)

sort(cs, mode) == SortFrom(<<>>, cs, mode)

\* MOCK_CENTERS.map(...).sort(...) of the timer callback
updatedResults(cs, bloodType, mode) == sort(annotate(cs, bloodType), mode)

\* the selects and buttons of the search panel
setSelectedBloodType(t) ==
    /\ activeTab = "search"
    /\ selectedBloodType' = t
    /\ UNCHANGED <<centers, sortBy, results, isSearching, searchTimer,
                   selectedCenter, invVars, screenVars, navVars, envVars>>

setSortBy(mode) ==
    /\ activeTab = "search"
    /\ sortBy' = mode
    /\ UNCHANGED <<centers, selectedBloodType, results, isSearching,
                   searchTimer, selectedCenter, invVars, screenVars, navVars,
                   envVars>>

\* handleSearch: the Find Centers button is disabled while isSearching; the
\* timer callback closes over selectedBloodType and sortBy of this render
\* faulty variant: the button is not disabled during a search
handleSearchWhileSearching ==
    /\ activeTab = "search"
    /\ shortageCalls < MaxShortageCalls
    /\ isSearching' = TRUE
    /\ isCheckingShortages' = TRUE
    /\ shortageAlert' = Null
    /\ shortageCalls' = shortageCalls + 1
    /\ searchTimer' = [selectedBloodType |-> selectedBloodType,
                       sortBy |-> sortBy]
    /\ UNCHANGED <<centers, selectedBloodType, sortBy, results,
                   selectedCenter, userLocation, geolocation, invVars,
                   screenVars, navVars>>

\* faulty variant: a search needs a resolved location
handleSearchNeedingLocation ==
    /\ activeTab = "search"
    /\ isSearching = FALSE
    /\ userLocation # Null
    /\ shortageCalls < MaxShortageCalls
    /\ isSearching' = TRUE
    /\ isCheckingShortages' = TRUE
    /\ shortageAlert' = Null
    /\ shortageCalls' = shortageCalls + 1
    /\ searchTimer' = [selectedBloodType |-> selectedBloodType,
                       sortBy |-> sortBy]
    /\ UNCHANGED <<centers, selectedBloodType, sortBy, results,
                   selectedCenter, userLocation, geolocation, invVars,
                   screenVars, navVars>>

handleSearch ==
    /\ activeTab = "search"
    /\ isSearching = FALSE
    /\ shortageCalls < MaxShortageCalls
    /\ isSearching' = TRUE
    /\ isCheckingShortages' = TRUE
    /\ shortageAlert' = Null
    /\ shortageCalls' = shortageCalls + 1
    /\ searchTimer' = [selectedBloodType |-> selectedBloodType,
                       sortBy |-> sortBy]
    /\ UNCHANGED <<centers, selectedBloodType, sortBy, results,
                   selectedCenter, userLocation, geolocation, invVars,
                   screenVars, navVars>>

\* the setTimeout callback of handleSearch
handleSearchTimeout ==
    /\ searchTimer # Null
    /\ results' = updatedResults(centers, searchTimer.selectedBloodType,
                                 searchTimer.sortBy)
    /\ isSearching' = FALSE
    /\ searchTimer' = Null
    /\ UNCHANGED <<centers, selectedBloodType, sortBy, selectedCenter,
                   invVars, screenVars, navVars, envVars>>

\* setSelectedCenter(c) from a result card, a map marker or a favorite
setSelectedCenter(i) ==
    /\ activeTab = "search"
    /\ i \in 1..Len(results)
    /\ selectedCenter' = results[i]
    /\ UNCHANGED <<centers, selectedBloodType, sortBy, results, isSearching,
                   searchTimer, invVars, screenVars, navVars, envVars>>

\* onClose of the CenterDetailPanel
closeCenter ==
    /\ selectedCenter # Null
    /\ selectedCenter' = Null
    /\ UNCHANGED <<centers, selectedBloodType, sortBy, results, isSearching,
                   searchTimer, invVars, screenVars, navVars, envVars>>

\* updatedReviews.reduce((acc, r) => acc + r.rating, 0)
RECURSIVE SumRatings(_)
SumRatings(rs) ==
    IF rs = <<>> THEN 0 ELSE Head(rs).rating + SumRatings(Tail(rs))

\* Number((sum / n).toFixed(1)) in tenths: the nearest tenth, a tie going
\* up (for n < 20 a tie is a multiple of 0.25, which a double holds exactly)
toFixed1(sum, n) == (20 * sum + n) \div (2 * n)

\* the body of the map callback / the selectedCenter branch for one center
\* faulty variant: the new review is put last
withReviewAppended(c, newReview) ==
    LET updatedReviews == c.reviews \o <<newReview>> IN
    [c EXCEPT !.reviews = updatedReviews,
              !.rating = toFixed1(SumRatings(updatedReviews),
                                  Len(updatedReviews)),
              !.review_count = Len(updatedReviews)]

withReview(c, newReview) ==
    LET updatedReviews == <<newReview>> \o c.reviews IN
    [c EXCEPT !.reviews = updatedReviews,
              !.rating = toFixed1(SumRatings(updatedReviews),
                                  Len(updatedReviews)),
              !.review_count = Len(updatedReviews)]

\* reviews written by handleAddReview carry the date 'Just now'
NewReviewCount(c) ==
    Cardinality({k \in 1..Len(c.reviews) : c.reviews[k].date = "Just now"})

RECURSIVE TotalNewReviews(_)
TotalNewReviews(cs) ==
    IF cs = <<>> THEN 0
    ELSE NewReviewCount(Head(cs)) + TotalNewReviews(Tail(cs))

\* handleAddReview(centerId, reviewIn); genId is the Math.random id
\* faulty variant: the map callback does not compare c.id with centerId
handleAddReviewToAll(centerId, rating, genId) ==
    LET newReview == [id |-> genId, rating |-> rating, date |-> "Just now"]
    IN
    /\ results' = [i \in 1..Len(results) |->
                     withReview(results[i], newReview)]
    /\ selectedCenter' = IF selectedCenter # Null
                            /\ selectedCenter.id = centerId
                         THEN withReview(selectedCenter, newReview)
                         ELSE selectedCenter
    /\ UNCHANGED <<centers, selectedBloodType, sortBy, isSearching,
                   searchTimer, invVars, screenVars, navVars, envVars>>

handleAddReview(centerId, rating, genId) ==
    LET newReview == [id |-> genId, rating |-> rating, date |-> "Just now"]
    IN
    /\ results' = [i \in 1..Len(results) |->
                     IF results[i].id = centerId
                     THEN withReview(results[i], newReview)
                     ELSE results[i]]
    /\ selectedCenter' = IF selectedCenter # Null
                            /\ selectedCenter.id = centerId
                         THEN withReview(selectedCenter, newReview)
                         ELSE selectedCenter
    /\ UNCHANGED <<centers, selectedBloodType, sortBy, isSearching,
                   searchTimer, invVars, screenVars, navVars, envVars>>

\* the review form lives in the CenterDetailPanel of selectedCenter, which
\* passes center.id
submitReview(rating, genId) ==
    /\ selectedCenter # Null
    /\ NewReviewCount(selectedCenter) < MaxNewReviews
    /\ TotalNewReviews(results) < MaxNewReviews
    /\ handleAddReview(selectedCenter.id, rating, genId)

\* handleAddReview called with any center id, also one that no entry of
\* the result list has
addReview(centerId, rating, genId) ==
    /\ TotalNewReviews(results) < MaxNewReviews
    /\ selectedCenter # Null => NewReviewCount(selectedCenter) < MaxNewReviews
    /\ handleAddReview(centerId, rating, genId)

(***************************************************************************)
(* Navigation actions                                                      *)
(***************************************************************************)
\* the Search / Insights / Dashboard buttons of the header
selectTab(tab) ==
    /\ activeTab' = tab
    /\ dashboardView' = "main"
    /\ RemountChild
    /\ UNCHANGED <<activeRole, backTimers, appVars, envVars>>

\* the role select of the header
\* faulty variant: the role changes under the view that is open
selectRoleKeepingView(role) ==
    /\ activeRole' = role
    /\ UNCHANGED <<activeTab, dashboardView, backTimers, invVars, screenVars,
                   appVars, envVars>>

selectRole(role) ==
    /\ activeRole' = role
    /\ dashboardView' = "main"
    /\ RemountChild
    /\ UNCHANGED <<activeTab, backTimers, appVars, envVars>>

\* the cards of Dashboard, which renders nothing but a notice for GUEST
DashboardShown ==
    /\ activeTab = "dashboard"
    /\ dashboardView = "main"
    /\ activeRole # "GUEST"

\* the Medical Assistance card: onNavigate('health')
onNavigateHealth ==
    /\ DashboardShown
    /\ activeTab' = "health"
    /\ UNCHANGED <<activeRole, dashboardView, backTimers, invVars, screenVars,
                   appVars, envVars>>

\* which role is offered the card that opens a view
CardRoles(view) ==
    CASE view \in {"screening", "update_donor", "inventory"}
            -> {"ADMIN", "STAFF"}
      [] view = "request_blood" -> {"PATIENT", "DONOR"}
      [] OTHER -> {}

\* a card of Dashboard: onInternalView(view)
onInternalView(view) ==
    /\ DashboardShown
    /\ activeRole \in CardRoles(view)
    /\ dashboardView' = view
    /\ RemountChild
    /\ UNCHANGED <<activeTab, activeRole, backTimers, appVars, envVars>>

\* onBack of the mounted dashboard child (Cancel Screening, Return to
\* Dashboard, Back to Dashboard, Back)
onBack ==
    /\ activeTab = "dashboard"
    /\ dashboardView # "main"
    /\ dashboardView' = "main"
    /\ RemountChild
    /\ UNCHANGED <<activeTab, activeRole, backTimers, appVars, envVars>>

\* onPass: the Complete Registration button of the result view
\* faulty variant: the button is rendered on every result view
onPassAlways ==
    /\ ScreeningMounted
    /\ currentStep = Len(screeningQuestions)
    /\ dashboardView' = "registration"
    /\ RemountChild
    /\ UNCHANGED <<activeTab, activeRole, backTimers, appVars, envVars>>

onPass ==
    /\ ScreeningMounted
    /\ currentStep = Len(screeningQuestions)
    /\ isEligible
    /\ dashboardView' = "registration"
    /\ RemountChild
    /\ UNCHANGED <<activeTab, activeRole, backTimers, appVars, envVars>>

\* submit of DonorRegistrationForm / BloodRequestForm: starts a 1500 ms
\* timer whose callback calls onBack
submitForm ==
    /\ activeTab = "dashboard"
    /\ dashboardView \in {"registration", "request_blood"}
    /\ backTimers < MaxBackTimers
    /\ backTimers' = backTimers + 1
    /\ UNCHANGED <<activeTab, activeRole, dashboardView, invVars, screenVars,
                   appVars, envVars>>

\* the timer callback: onBack() = setDashboardView('main'), whatever is
\* shown by then
submitFormTimeout ==
    /\ backTimers > 0
    /\ backTimers' = backTimers - 1
    /\ dashboardView' = "main"
    /\ RemountChild
    /\ UNCHANGED <<activeTab, activeRole, appVars, envVars>>

(***************************************************************************)
(* Specifications                                                          *)
(***************************************************************************)
Init ==
    /\ InitInventory
    /\ InitScreening
    /\ InitEnv
    /\ InitApp
    /\ InitNav

\* the dashboard with its InventoryManager and DonorScreening children
NextDashboard ==
    \/ \E tab \in Tab : selectTab(tab)
    \/ \E role \in Role : selectRole(role)
    \/ onNavigateHealth
    \/ \E view \in DashboardView : onInternalView(view)
    \/ onBack
    \/ onPass
    \/ submitForm
    \/ submitFormTimeout
    \/ fetchLatestInventory
    \/ \E t \in BloodType, delta \in {-1, 1} : updateUnits(t, delta)
    \/ handleSave
    \/ handleSaveResume
    \/ \E answer \in BOOLEAN : handleAnswer(answer)

SpecDashboard == Init /\ [][NextDashboard]_vars

\* the search tab: query, search, ranking and center selection
NextSearch ==
    \/ shortageResolved
    \/ shortageRejected
    \/ \E t \in BloodType : setSelectedBloodType(t)
    \/ \E mode \in SortModes : setSortBy(mode)
    \/ handleSearch
    \/ handleSearchTimeout
    \/ \E i \in 1..Len(results) : setSelectedCenter(i)
    \/ closeCenter

SpecSearch == Init /\ [][NextSearch]_vars

\* searches while the query changes and the user moves between the tabs,
\* with the 1000 ms timer of handleSearch firing: App is never unmounted
\* and nothing clears the timer
NextSearchFair ==
    \/ shortageResolved
    \/ shortageRejected
    \/ \E t \in {"O+", "AB-"} : setSelectedBloodType(t)
    \/ \E mode \in SortModes : setSortBy(mode)
    \/ \E tab \in Tab : selectTab(tab)
    \/ handleSearch
    \/ handleSearchTimeout

SpecSearchFair ==
    /\ Init
    /\ [][NextSearchFair]_vars
    /\ WF_vars(handleSearchTimeout)

\* the search tab under the default query: search, selection and reviews
NextReviews ==
    \/ shortageResolved
    \/ shortageRejected
    \/ handleSearch
    \/ handleSearchTimeout
    \/ \E i \in 1..Len(results) : setSelectedCenter(i)
    \/ closeCenter
    \/ \E rating \in ReviewRatings, genId \in RandomIds :
          submitReview(rating, genId)

SpecReviews == Init /\ [][NextReviews]_vars

\* the search tab with the answer of the browser to getCurrentPosition
NextLocation ==
    \/ \E pos \in GeoPositions : geolocationSuccess(pos)
    \/ geolocationError
    \/ shortageResolved
    \/ shortageRejected
    \/ \E t \in {"O+", "AB-"} : setSelectedBloodType(t)
    \/ \E mode \in SortModes : setSortBy(mode)
    \/ \E tab \in Tab : selectTab(tab)
    \/ handleSearch
    \/ handleSearchTimeout

SpecLocation == Init /\ [][NextLocation]_vars

\* handleAddReview as a function of its arguments, over the result lists
\* and selections that searches produce
NextAddReview ==
    \/ shortageResolved
    \/ shortageRejected
    \/ handleSearch
    \/ handleSearchTimeout
    \/ \E i \in 1..Len(results) : setSelectedCenter(i)
    \/ closeCenter
    \/ \E centerId \in 1..MaxCenters, rating \in {1, 5} :
          addReview(centerId, rating, "k3j9xq")

SpecAddReview == Init /\ [][NextAddReview]_vars

\* the ranking expression of the timer callback over every facility list
\* and query of the bounded input space
InitRank ==
    /\ InitInventory
    /\ InitScreening
    /\ InitEnv
    /\ InitNav
    /\ centers \in CenterLists
    /\ selectedBloodType \in BloodType
    /\ sortBy \in SortModes
    /\ results = <<>>
    /\ isSearching = FALSE
    /\ searchTimer = Null
    /\ selectedCenter = Null

NextRank ==
    \/ handleSearch
    \/ handleSearchTimeout

SpecRank == InitRank /\ [][NextRank]_vars

\* one screening session that is never cancelled: DonorScreening is mounted
\* (the card is offered to ADMIN and STAFF) and only answers arrive
InitScreeningSession ==
    /\ InitInventory
    /\ InitScreening
    /\ InitEnv
    /\ InitApp
    /\ activeTab = "dashboard"
    /\ activeRole \in CardRoles("screening")
    /\ dashboardView = "screening"
    /\ backTimers = 0

NextScreeningSession == \E answer \in BOOLEAN : handleAnswer(answer)

\* the Yes/No buttons stay on screen until the result view: an operator
\* who keeps answering presses one of them
SpecScreeningSession ==
    /\ InitScreeningSession
    /\ [][NextScreeningSession]_vars
    /\ WF_vars(NextScreeningSession)

\* screening sessions next to facility data that carries submitted reviews:
\* the search tab under the default query and the screening card
NextScreeningAndReviews ==
    \/ shortageResolved
    \/ shortageRejected
    \/ \E tab \in Tab : selectTab(tab)
    \/ \E role \in Role : selectRole(role)
    \/ onInternalView("screening")
    \/ \E answer \in BOOLEAN : handleAnswer(answer)
    \/ onBack
    \/ handleSearch
    \/ handleSearchTimeout
    \/ \E i \in 1..Len(results) : setSelectedCenter(i)
    \/ \E genId \in RandomIds : submitReview(1, genId)

SpecScreeningAndReviews == Init /\ [][NextScreeningAndReviews]_vars

\* InventoryManager as mounted from its card (offered to ADMIN and STAFF)
InitInventoryManager ==
    /\ InitInventory
    /\ InitScreening
    /\ InitEnv
    /\ InitApp
    /\ activeTab = "dashboard"
    /\ activeRole \in CardRoles("inventory")
    /\ dashboardView = "inventory"
    /\ backTimers = 0

\* InventoryManager alone, with a commit that succeeds or fails
NextInventory ==
    \/ fetchLatestInventory
    \/ \E t \in BloodType, delta \in {-1, 1} : updateUnits(t, delta)
    \/ handleSave
    \/ handleSaveResume
    \/ handleSaveCatch

SpecInventory == InitInventoryManager /\ [][NextInventory]_vars

\* InventoryManager with several adjustments of one cell per event
NextInventoryBatch ==
    \/ fetchLatestInventory
    \/ \E t \in BloodType, delta \in {-1, 1} : updateUnits(t, delta)
    \/ \E t \in BloodType, deltas \in Batches : updateUnitsBatch(t, deltas)

SpecInventoryBatch == InitInventoryManager /\ [][NextInventoryBatch]_vars

(***************************************************************************)
(* Properties                                                              *)
(***************************************************************************)
\* C1: every unit count of a loaded inventory is a non-negative integer in
\* every reachable state, and updateUnits(type, delta) sets the targeted
\* count to max(0, current + delta), so that decrementing 0 leaves 0.
C1_AdjustClampsAtZero ==
    /\ [](inventory # Null => \A t \in BloodType : inventory[t] \in Nat)
    /\ [][\A t \in BloodType, delta \in {-1, 1} :
            updateUnits(t, delta) =>
                /\ inventory'[t] =
                     (IF inventory[t] + delta < 0 THEN 0
                      ELSE inventory[t] + delta)
                /\ (inventory[t] = 0 /\ delta = -1 => inventory'[t] = 0)]_vars

\* a count that started at 1 was decremented to 0 and another was raised
C1_Witness ==
    /\ inventory # Null
    /\ inventory["B-"] = 0
    /\ inventory["A+"] = 23

\* C2: a blood type is listed in criticalShortages if and only if its count
\* is strictly below 5; a count of exactly 5 is not critical, 0 is.
C2_CriticalIffBelowThreshold ==
    inventory # Null =>
        \A t \in BloodType :
            (t \in Range(criticalShortages)) <=> (inventory[t] < 5)

\* AB+ fell from 5 to 4 and became critical, O- rose from 4 to 5 and no
\* longer is
C2_Witness ==
    /\ inventory # Null
    /\ inventory["AB+"] = 4
    /\ inventory["O-"] = 5
    /\ Range(criticalShortages) = {"A-", "B-", "AB+", "AB-"}

\* C3: the list published by a search has the length of the facility list
\* and holds exactly its ids, each once; an empty list gives an empty list.
C3_RankKeepsEveryFacility ==
    [][handleSearchTimeout =>
        /\ Len(results') = Len(centers)
        /\ \A j \in 1..Len(centers) :
              Cardinality({i \in 1..Len(results') :
                              results'[i].id = centers[j].id}) = 1
        /\ (centers = <<>> => results' = <<>>)]_vars

\* three facilities were ranked and the ranking moved the first one
C3_Witness ==
    /\ Len(centers) = 3
    /\ Len(results) = 3
    /\ results[1].id # centers[1].id
    /\ {results[i].id : i \in 1..3} = {centers[i].id : i \in 1..3}

\* C4: the list published by a search is ascending in distance_km when the
\* query sorts by distance and ascending in eta_minutes when it sorts by
\* eta: each result's key is at most the next one's.
C4_ResultsAscendingByKey ==
    [][handleSearchTimeout =>
        \A i \in 1..(Len(results') - 1) :
            IF searchTimer.sortBy = "distance"
            THEN results'[i].distance_km <= results'[i + 1].distance_km
            ELSE results'[i].eta_minutes <= results'[i + 1].eta_minutes]_vars

\* a search by eta reordered two facilities whose distances are opposed
C4_Witness ==
    /\ sortBy = "eta"
    /\ Len(centers) >= 2
    /\ Len(results) = Len(centers)
    /\ centers[1].eta_minutes > centers[2].eta_minutes
    /\ results[1].eta_minutes < results[2].eta_minutes
    /\ results[1].distance_km > results[2].distance_km

C6_UnitsForRequestedType ==
    [][handleSearchTimeout =>
        /\ \A i \in 1..Len(results') :
              /\ results'[i].units_available =
                    results'[i].inventory[searchTimer.selectedBloodType]
              /\ \E j \in 1..Len(centers) :
                    /\ centers[j].id = results'[i].id
                    /\ centers[j].inventory = results'[i].inventory
        /\ \A j \in 1..Len(centers) :
              centers[j].inventory[searchTimer.selectedBloodType] = 0 =>
                  \E i \in 1..Len(results') :
                      /\ results'[i].id = centers[j].id
                      /\ results'[i].units_available = 0]_vars

\* a search for AB- returned center 2 with no unit next to center 1 with one
C6_Witness ==
    /\ Len(results) = 2
    /\ results[1].id = 1
    /\ results[1].units_available = 1
    /\ results[2].id = 2
    /\ results[2].units_available = 0
    /\ results[2].inventory["AB-"] = 0

\* C7: handleAddReview makes the review list of the facility the new review
\* followed by the previous reviews in their order, and sets review_count
\* to the length of that list (in the result list and in the detail copy).
C7_ReviewPrepended ==
    [][\A rating \in ReviewRatings, genId \in RandomIds :
        submitReview(rating, genId) =>
            LET new == [id |-> genId, rating |-> rating, date |-> "Just now"]
            IN
            /\ \A i \in 1..Len(results) :
                  results[i].id = selectedCenter.id =>
                      /\ results'[i].reviews = <<new>> \o results[i].reviews
                      /\ results'[i].review_count =
                            Len(results[i].reviews) + 1
            /\ selectedCenter'.reviews = <<new>> \o selectedCenter.reviews
            /\ selectedCenter'.review_count =
                  Len(selectedCenter.reviews) + 1]_vars

\* two reviews were added to center 1 in front of its two seeded reviews
C7_Witness ==
    \E i \in 1..Len(results) :
        /\ Len(results[i].reviews) = 4
        /\ results[i].reviews[1].date = "Just now"
        /\ results[i].reviews[2].date = "Just now"
        /\ results[i].reviews[3].id = "r1"
        /\ results[i].reviews[4].id = "r2"
        /\ results[i].review_count = 4

\* the mean of a non-empty review list in tenths, rounded to the nearest
\* tenth
RoundedMean(rs) ==
    LET n == Len(rs)
        total == SumRatings(rs)
    IN CHOOSE m \in 0..50 : 2 * n * m - n <= 20 * total
                              /\ 20 * total < 2 * n * m + n

\* C8: in every reachable state each facility's stored rating is the mean
\* of the ratings of its stored reviews rounded to one decimal.
C8_RatingIsMeanOfReviews ==
    \A i \in 1..Len(results) :
        results[i].reviews # <<>> =>
            results[i].rating = RoundedMean(results[i].reviews)

\* C9: when the last question has been answered the session is Eligible if
\* and only if every answer equals its question's expected answer, and
\* Deferred otherwise; all safe answers give no deferral reason.
C9_EligibleIffAllSafe ==
    currentStep = 5 =>
        LET allSafe == \A k \in 1..5 :
                          answers[screeningQuestions[k].id] =
                              screeningQuestions[k].expected
        IN /\ isEligible <=> allSafe
           /\ allSafe => deferralReasons = <<>>
           /\ ~allSafe => deferralReasons # <<>>

\* five safe answers were given
C9_Witness ==
    /\ currentStep = 5
    /\ isEligible
    /\ answers = [well |-> TRUE, bodyart |-> FALSE, travel |-> FALSE,
                  antibiotics |-> FALSE, weight |-> TRUE]

\* C10: each answer is recorded under the id of the current question and
\* the question's index is appended to failedIndices if and only if the
\* answer differs from the expected one; at the end the deferral reasons
\* are the fail messages of the mismatched questions, in question order.
C10_FailuresRecorded ==
    /\ [][\A answer \in BOOLEAN :
            handleAnswer(answer) =>
                LET q == screeningQuestions[currentStep + 1] IN
                /\ answers'[q.id] = answer
                /\ \A k \in DOMAIN answers : k # q.id => answers'[k] = answers[k]
                /\ IF answer # q.expected
                   THEN failedIndices' = failedIndices \o <<currentStep>>
                   ELSE failedIndices' = failedIndices]_vars
    /\ [](currentStep = 5 =>
            LET mismatched ==
                    SelectSeq(screeningQuestions,
                              LAMBDA q : answers[q.id] # q.expected)
            IN deferralReasons =
                  [i \in 1..Len(mismatched) |-> mismatched[i].failMessage])

\* the tattoo and the antibiotics questions were answered unsafely
C10_Witness ==
    /\ currentStep = 5
    /\ failedIndices = <<1, 3>>
    /\ Len(deferralReasons) = 2
    /\ answers["bodyart"] = TRUE
    /\ answers["antibiotics"] = TRUE

\* C11: a screening session starts at question index 0 and every answer
\* advances the index by exactly one; no step of a session decreases the
\* index or returns to an earlier question.
C11_StepOnlyAdvances ==
    [][/\ (\A answer \in BOOLEAN :
              handleAnswer(answer) => currentStep' = currentStep + 1)
       /\ (ScreeningMounted /\ ScreeningMounted' =>
              currentStep' \in {currentStep, currentStep + 1})
       /\ (~ScreeningMounted /\ ScreeningMounted' => currentStep' = 0)]_vars

\* three answers, one of them failing, moved the index from 0 to 3
C11_Witness ==
    /\ ScreeningMounted
    /\ currentStep = 3
    /\ failedIndices = <<1>>

\* C12: a session that is not cancelled and keeps receiving answers reaches
\* the result view, and it is there exactly when five answers were given,
\* whatever the answers; before that an answer can always be given, also
\* after a failing one.
C12_TerminatesAfterFiveAnswers ==
    /\ <>terminal
    /\ [](terminal <=> Cardinality(DOMAIN answers) = 5)
    /\ [](~terminal => \A answer \in BOOLEAN : ENABLED handleAnswer(answer))

\* the first answer failed and the session still got to the result view
C12_Witness ==
    /\ terminal
    /\ Len(failedIndices) > 0
    /\ failedIndices[1] = 0
    /\ Cardinality(DOMAIN answers) = 5

\* C13: on the result view no answer can be submitted, and the verdict, the
\* answers and the failure list do not change while that session lasts; the
\* result view is left only for a fresh session state (index 0, no answers,
\* no failures).
C13_ResultViewIsFinal ==
    /\ [](ScreeningMounted /\ terminal =>
            \A answer \in BOOLEAN : ~ENABLED handleAnswer(answer))
    /\ [][/\ (ScreeningMounted /\ terminal /\ ScreeningMounted' =>
                /\ UNCHANGED screenVars
                /\ isEligible' = isEligible)
          /\ (terminal /\ ~UNCHANGED screenVars =>
                /\ currentStep' = 0
                /\ answers' = EmptyRecord
                /\ failedIndices' = <<>>)]_vars

\* a result view with a failing verdict from which the role select, the
\* tabs and Return to Dashboard remain available
C13_Witness ==
    /\ ScreeningMounted
    /\ terminal
    /\ ~isEligible
    /\ ENABLED onBack

\* C14: Cancel Screening is available on every question view; it leaves the
\* inventory counts and every facility's reviews, rating and review count
\* as they are and closes the session, and the next session starts at
\* question 0 with no answers and no recorded failures.
C14_CancelDiscardsSession ==
    /\ [](ScreeningMounted /\ ~terminal => ENABLED onBack)
    /\ [][/\ (onBack /\ ScreeningMounted =>
                /\ ~ScreeningMounted'
                /\ inventory' = inventory
                /\ centers' = centers
                /\ results' = results
                /\ selectedCenter' = selectedCenter)
          /\ (~ScreeningMounted /\ ScreeningMounted' =>
                /\ currentStep' = 0
                /\ answers' = EmptyRecord
                /\ failedIndices' = <<>>)]_vars

\* a session with two answers, one failing, next to a facility that got a
\* review, from which cancelling leads to the dashboard and a new session
\* can be opened
C14_Witness ==
    /\ ScreeningMounted
    /\ currentStep = 2
    /\ failedIndices = <<0>>
    /\ TotalNewReviews(results) = 1
    /\ ENABLED (onBack /\ DashboardShown' /\ results' = results)

\* C15: a commit that completes when an earlier commit has completed and no
\* adjustment was made since changes nothing: counts and last-synced marker
\* are what they were.
C15_SecondCommitChangesNothing ==
    [][(handleSaveResume /\ commitsSinceAdjust >= 1) =>
          /\ inventory' = inventory
          /\ lastSynced' = lastSynced]_vars

\* C16: a failed commit leaves every count as adjusted, reports the error
\* that asks to try again and ends the saving state, so that Commit can be
\* pressed again with the adjustments still in place.
C16_FailedCommitKeepsAdjustments ==
    /\ [][handleSaveCatch =>
            /\ inventory' = inventory
            /\ lastSynced' = lastSynced
            /\ syncAlert' =
                 "Error syncing with regional database. Please try again."
            /\ isSaving' = FALSE]_vars
    /\ [](InventoryMounted /\ inventory # Null /\ ~isSaving
             /\ clock < MaxClock => ENABLED handleSave)

\* two adjustments, then a commit that failed: the counts are still the
\* adjusted ones and Commit is available
C16_Witness ==
    /\ syncAlert = SyncErrorAlert
    /\ ~isSaving
    /\ clock = 0
    /\ inventory # Null
    /\ inventory["A+"] = 23
    /\ inventory["B-"] = 0
    /\ ENABLED handleSave

\* C17: updateUnits(type, delta) leaves the counts of the other seven types
\* as they are and starts no commit: isSaving, lastSynced and the alert are
\* unchanged.
C17_AdjustTouchesOneCell ==
    [][\A t \in BloodType, delta \in {-1, 1} :
          updateUnits(t, delta) =>
              /\ \A u \in BloodType \ {t} : inventory'[u] = inventory[u]
              /\ isSaving' = isSaving
              /\ lastSynced' = lastSynced
              /\ syncAlert' = syncAlert
              /\ clock' = clock]_vars

\* one cell adjusted twice, the seven others as loaded, nothing committed
C17_Witness ==
    /\ inventory # Null
    /\ inventory["O+"] = 30
    /\ \A u \in BloodType \ {"O+"} : inventory[u] = mockBackendData[u]
    /\ ~isSaving
    /\ lastSynced = 0
    /\ syncAlert = Null

\* C18: a loaded inventory has exactly the eight blood-type keys in every
\* reachable state, whatever adjustments and commits were made.
C18_AllEightKeys ==
    inventory # Null =>
        DOMAIN inventory = {"A+", "A-", "B+", "B-", "O+", "O-", "AB+", "AB-"}

\* after an adjustment down to 0, a commit and another adjustment
C18_Witness ==
    /\ inventory # Null
    /\ Cardinality(DOMAIN inventory) = 8
    /\ inventory["B-"] = 0
    /\ inventory["AB-"] = 1
    /\ lastSynced = 1

\* the count after a run of adjustments of one cell, each clamped at zero
RECURSIVE ClampedWalk(_, _)
ClampedWalk(count, deltas) ==
    IF deltas = <<>> THEN count
    ELSE LET sum == count + Head(deltas) IN
         ClampedWalk(IF sum < 0 THEN 0 ELSE sum, Tail(deltas))

\* C19: several updateUnits calls on one type issued before the state is
\* read again leave the count obtained by applying the clamped deltas one
\* after another in the order of the calls; no call is lost.
C19_AdjustsSerialize ==
    [][\A t \in BloodType, deltas \in Batches :
          updateUnitsBatch(t, deltas) =>
              /\ inventory'[t] = ClampedWalk(inventory[t], deltas)
              /\ \A u \in BloodType \ {t} : inventory'[u] = inventory[u]]_vars

\* a count at 0 from which a decrement followed by an increment gives 1 and
\* two increments give 2
C19_Witness ==
    /\ inventory # Null
    /\ inventory["B-"] = 0
    /\ ENABLED (updateUnitsBatch("B-", <<-1, 1>>) /\ inventory'["B-"] = 1)
    /\ ENABLED (updateUnitsBatch("B-", <<1, 1>>) /\ inventory'["B-"] = 2)

\* C20: with a loaded inventory every adjustment can be made, also while a
\* commit is in flight, and it takes effect in that step; the completion of
\* the commit, successful or not, leaves the counts as adjusted.
C20_AdjustNeverBlocks ==
    /\ [](InventoryMounted /\ inventory # Null =>
            \A t \in BloodType, delta \in {-1, 1} :
                Drift(updateUnitsUpdater(inventory, t, delta)) <= MaxDrift =>
                    ENABLED updateUnits(t, delta))
    /\ [][\A t \in BloodType, delta \in {-1, 1} :
            (isSaving /\ updateUnits(t, delta)) =>
                /\ inventory'[t] = Max(0, inventory[t] + delta)
                /\ isSaving']_vars
    /\ [][(isSaving /\ ~isSaving') => inventory' = inventory]_vars

\* a commit in flight with nothing adjusted since the load, during which an
\* increment of O- takes effect and the commit stays in flight
C20_Witness ==
    /\ isSaving
    /\ inventory = mockBackendData
    /\ ENABLED (updateUnits("O-", 1) /\ inventory'["O-"] = 5 /\ isSaving')


\* C21: starting a search and the completion of a search leave the reviews,
\* the rating and the review count of every facility of the result list as
\* they were; a review that was added stays in the list.
C21_SearchKeepsReviews ==
    [][(handleSearch \/ handleSearchTimeout) =>
          \A i \in 1..Len(results), j \in 1..Len(results') :
              results[i].id = results'[j].id =>
                  /\ results'[j].reviews = results[i].reviews
                  /\ results'[j].rating = results[i].rating
                  /\ results'[j].review_count = results[i].review_count]_vars

\* C22: whenever the selected center has the id of an entry of the result
\* list, the two carry the same reviews, rating and review count.
C22_ListAndDetailAgree ==
    selectedCenter # Null =>
        \A i \in 1..Len(results) :
            results[i].id = selectedCenter.id =>
                /\ results[i].reviews = selectedCenter.reviews
                /\ results[i].rating = selectedCenter.rating
                /\ results[i].review_count = selectedCenter.review_count


\* C25: in every reachable state currentStep lies between 0 and the number
\* of questions, as many answers are recorded as currentStep says, and
\* failedIndices is strictly increasing with every index below currentStep.
C25_ScreeningStateConsistent ==
    /\ currentStep \in 0..Len(screeningQuestions)
    /\ Cardinality(DOMAIN answers) = currentStep
    /\ \A i \in 1..Len(failedIndices) :
          /\ failedIndices[i] \in Nat
          /\ failedIndices[i] < currentStep
    /\ \A i, j \in 1..Len(failedIndices) :
          i < j => failedIndices[i] < failedIndices[j]

\* a finished session that failed the first, third and last question
C25_Witness ==
    /\ ScreeningMounted
    /\ currentStep = 5
    /\ failedIndices = <<0, 2, 4>>
    /\ Cardinality(DOMAIN answers) = 5

\* C26: the registration view is entered only from the result view of a
\* screening with all five questions answered and no failure; a screening
\* that is not in that state is left only for the main dashboard.
C26_RegistrationOnlyAfterEligible ==
    [][/\ (dashboardView' = "registration" /\ dashboardView # "registration"
             => /\ ScreeningMounted
                /\ terminal
                /\ failedIndices = <<>>
                /\ Cardinality(DOMAIN answers) = Len(screeningQuestions))
       /\ (ScreeningMounted /\ ~(terminal /\ isEligible)
             /\ dashboardView' # dashboardView
             => dashboardView' = "main")]_vars

\* the registration form, shown after Complete Registration
C26_Witness ==
    /\ activeTab = "dashboard"
    /\ dashboardView = "registration"
    /\ activeRole \in {"ADMIN", "STAFF"}

\* C27: the staff views are open only under ADMIN or STAFF, the blood
\* request only under PATIENT or DONOR, GUEST sees only the main view, and
\* every change of role or tab sets dashboardView to main.
C27_ViewsMatchRole ==
    /\ [](/\ (dashboardView \in {"inventory", "screening", "registration",
                                  "update_donor"}
                => activeRole \in {"ADMIN", "STAFF"})
          /\ (dashboardView = "request_blood"
                => activeRole \in {"PATIENT", "DONOR"})
          /\ (activeRole = "GUEST" => dashboardView = "main"))
    /\ [][(activeRole' # activeRole \/ activeTab' # activeTab)
            => dashboardView' = "main"]_vars

\* a blood request form with its submit timer running
C27_Witness ==
    /\ activeRole = "DONOR"
    /\ dashboardView = "request_blood"
    /\ backTimers = 1


\* C29: in every reachable state each entry of the result list shows the
\* count of its inventory for the selected blood type and the list is in
\* ascending order of the key of the selected sort mode, also after the
\* blood type or the sort mode was changed during or after a search.
C29_ResultsFollowQuery ==
    /\ \A i \in 1..Len(results) :
          results[i].units_available = results[i].inventory[selectedBloodType]
    /\ \A i, j \in 1..Len(results) :
          i < j =>
              IF sortBy = "distance"
              THEN results[i].distance_km <= results[j].distance_km
              ELSE results[i].eta_minutes <= results[j].eta_minutes

\* C30: handleAddReview(centerId, review) keeps the length and the order of
\* the result list, leaves the reviews, rating and review count of every
\* entry with another id as they are, and leaves the whole list as it is
\* when no entry has that id.
C30_ReviewTouchesOneFacility ==
    [][\A centerId \in 1..MaxCenters, rating \in {1, 5} :
          addReview(centerId, rating, "k3j9xq") =>
              /\ Len(results') = Len(results)
              /\ \A i \in 1..Len(results) :
                    /\ results'[i].id = results[i].id
                    /\ results[i].id # centerId =>
                          /\ results'[i].reviews = results[i].reviews
                          /\ results'[i].rating = results[i].rating
                          /\ results'[i].review_count = results[i].review_count
              /\ ((\A i \in 1..Len(results) : results[i].id # centerId)
                    => results' = results)]_vars

\* center 1 got a review, center 2 behind it still has its seeded review,
\* rating and count, and a call with the unknown id 3 is possible
C30_Witness ==
    /\ Len(results) = 2
    /\ results[1].id = 1
    /\ results[1].review_count = 3
    /\ results[2].id = 2
    /\ results[2].review_count = 54
    /\ results[2].rating = 42
    /\ Len(results[2].reviews) = 1
    /\ ENABLED addReview(3, 5, "k3j9xq")


\* C28: a search is started only while isSearching is false, isSearching is
\* true exactly while the timer of a started search has not fired, the
\* firing publishes the results and clears isSearching, and every started
\* search gets there.
C28_OneSearchInFlight ==
    /\ [](isSearching <=> searchTimer # Null)
    /\ [](ENABLED handleSearch => ~isSearching)
    /\ [][/\ (handleSearch => ~isSearching /\ isSearching')
          /\ (isSearching /\ ~isSearching' =>
                results' = updatedResults(centers,
                                          searchTimer.selectedBloodType,
                                          searchTimer.sortBy))]_vars
    /\ (isSearching ~> ~isSearching)

\* a search in flight that was started after an earlier one had published
\* its results, with Find Centers disabled
C28_Witness ==
    /\ isSearching
    /\ searchTimer # Null
    /\ Len(results) = 2
    /\ ~ENABLED handleSearch
    /\ ENABLED handleSearchTimeout


\* C23: a search during which the external lookup fails ends with an empty
\* result list (and an error flag, for which App has no state): once the
\* timer has fired and the lookup was rejected, results is empty.
C23_FailedLookupGivesEmptyResult ==
    [][/\ (handleSearchTimeout /\ ~isCheckingShortages
             /\ shortageAlert = Null => results' = <<>>)
       /\ (shortageRejected /\ ~isSearching => results' = <<>>)]_vars

\* C24: after the error callback of getCurrentPosition userLocation stays
\* null and the callback changes nothing else, the map origin is the
\* default coordinate (12.9716, 77.5946), Find Centers can be pressed, and
\* the pending search completes with one result per facility.
C24_SearchWithoutLocation ==
    /\ [](geolocation = "failed" =>
            /\ userLocation = Null
            /\ initialPos = <<129716, 775946>>
            /\ (activeTab = "search" /\ ~isSearching
                  /\ shortageCalls < MaxShortageCalls
                  => ENABLED handleSearch)
            /\ (isSearching => ENABLED handleSearchTimeout))
    /\ [][/\ (geolocationError =>
                UNCHANGED <<userLocation, invVars, screenVars, appVars,
                            navVars>>)
          /\ (geolocation = "failed" /\ handleSearchTimeout =>
                /\ Len(results') = Len(centers)
                /\ Len(results') > 0
                /\ ~isSearching')]_vars

\* the location request failed, nothing was found yet and a search is in
\* flight whose completion publishes the two centers
C24_Witness ==
    /\ geolocation = "failed"
    /\ userLocation = Null
    /\ results = <<>>
    /\ isSearching
    /\ ENABLED (handleSearchTimeout /\ Len(results') = 2)

====
